---- MODULE Spec2Model ----
(***************************************************************************)
(* Secure PDF Unlocker: the batch queue manager of ui/app.js (queueFiles,  *)
(* processQueue, resetState) driving the service layer (initWasm,          *)
(* processFile).                                                           *)
(*                                                                         *)
(* JavaScript runs one task at a time.  An async function runs             *)
(* synchronously up to its first await; an await of an already settled     *)
(* promise resumes in a microtask, before any event or timer; an await of  *)
(* engine loading, file reading or archive building resumes in a later     *)
(* task, and events and timers may run in between.  pc is the place where  *)
(* the drain (processQueue and the processFile call it awaits) is          *)
(* suspended:                                                              *)
(*   "idle"    no drain is suspended                                       *)
(*   "resume"  processFile has settled; processQueue resumes in a          *)
(*             microtask (nothing else may run first)                      *)
(*   "init"    processFile awaits initWasm(), the factory is loading       *)
(*   "read"    processFile awaits file.arrayBuffer()                       *)
(*   "zip"     processQueue awaits zip.generateAsync()                     *)
(***************************************************************************)
EXTENDS Integers, Sequences, FiniteSets, TLC

\* ---------------------------------------------------------------- bounds
MaxFiles == 3       \* files admitted in one session

\* ------------------------------------------------------ program constants
MAX_BATCH_FILES == 20
ZIP_MEMORY_LIMIT_MB == 150
ZIP_MEMORY_LIMIT_BYTES == ZIP_MEMORY_LIMIT_MB * 1024 * 1024
MAX_FILE_SIZE_MB == 100
MAX_FILE_SIZE_BYTES == MAX_FILE_SIZE_MB * 1024 * 1024

PdfType == "application/pdf"
OtherType == "text/plain"

\* ------------------------------------------------------------ the inputs
MiB == 1024 * 1024
\* declared sizes: small, half the archive limit, just over the file limit
FileSizes == {MiB, ZIP_MEMORY_LIMIT_BYTES \div 2, MAX_FILE_SIZE_BYTES + 1}
PdfEntries == {[type |-> PdfType, size |-> s] : s \in FileSizes}
SmallPdf == [type |-> PdfType, size |-> MiB]
OtherEntry == [type |-> OtherType, size |-> MiB]
EntryKinds == PdfEntries \cup {OtherEntry}

Rep(e, n) == [i \in 1..n |-> e]
\* ordinary submissions: one entry, or two of any kinds in either order
ShortSubmissions ==
    {<<a>> : a \in EntryKinds} \cup {<<a, b>> : a \in EntryKinds, b \in EntryKinds}
\* submissions around the batch ceiling
LongSubmissions ==
    { Rep(SmallPdf, MAX_BATCH_FILES + 1),
      Rep(OtherEntry, MAX_BATCH_FILES) \o <<SmallPdf>> }
Submissions == ShortSubmissions \cup LongSubmissions

VARIABLES
    hostEnv,              \* the host: "ok", "noModule" (Module is no function), "blocked"
    qpdfModule,           \* the engine instance is set
    wasmSupportStatus,    \* pdfService.wasmSupportStatus
    bootPc,               \* the bootstrap initWasm() of app.js: "pending" or "done"
    isProcessing,         \* the service layer's busy flag
    isQueueRunning,       \* the queue manager's running flag
    fileQueue,            \* the pending files
    pc,                   \* where the drain is suspended
    ret,                  \* what the settled processFile call resolved to
    callReturnBlob,       \* config.returnBlob of the processFile call in flight
    useZip, totalFilesThisBatch, currentProcessed, successfulBlobs,
    zipEntries,           \* the ids of the files added to the JSZip instance
    status,               \* the display: state, main text, progress i of n
    delayPending,         \* a 4000 ms timer of processQueue is pending
    resetPending,         \* a 6000 ms timer of resetState is pending
    \* history, read by the properties only
    admitted,             \* the number of files pushed on the queue; the k-th is file k
    dispatched,           \* the file of every processFile call, in order
    inFlight,             \* processFile calls past the busy check, not yet released
    activeDrains,         \* processQueue calls past the running check, not yet finished
    entryCount,           \* the files queued at entry to the current or last drain
    entryTotal,           \* the sum of their declared sizes
    drainReturnBlobs,     \* the returnBlob values handed to processFile in that drain
    drainSuccesses,       \* the decodes that succeeded in that drain
    perFileDownloads,     \* the downloads processFile emitted in that drain
    archivesEmitted,      \* the Unlocked_PDFs.zip downloads emitted in that drain
    archiveResult,        \* "none", "ok" or "failed" for that drain
    objectUrls,           \* the object URLs created in that drain and not revoked
    archiveBytes,         \* the declared sizes of the files that drain dispatched
                          \* with returnBlob: true, summed
    lastOutcome,          \* the outcome of the last processFile call
    call,                 \* what the processFile call in flight, or settled and not
                          \* yet back at its caller, has done
    event                 \* the queueFiles call that ran last, with its input

vars == << hostEnv, qpdfModule, wasmSupportStatus, bootPc, isProcessing,
           isQueueRunning, fileQueue, pc, ret, callReturnBlob, useZip, totalFilesThisBatch,
           currentProcessed, successfulBlobs, zipEntries, status, delayPending,
           resetPending, admitted, dispatched, inFlight, activeDrains,
           entryCount, entryTotal, drainReturnBlobs, drainSuccesses,
           perFileDownloads, archivesEmitted, archiveResult, objectUrls,
           archiveBytes, lastOutcome,
           call, event >>

\* ------------------------------------------------------------ the display
Shown(state, main) == [state |-> state, main |-> main, i |-> 0, n |-> 0]
Progress(i, n) == [state |-> "processing", main |-> "Unlocking", i |-> i, n |-> n]
DefaultStatus == Shown("default", "Awaiting Document")

\* serviceCallbacks.onStatus: a 'processing' status keeps the texts on display
OnStatusThroughCallbacks(shown, state, main) ==
    IF state # "processing" THEN Shown(state, main)
    ELSE [shown EXCEPT !.state = "processing"]

NoEvent == [op |-> "other", fileList |-> << >>]

\* What one processFile call has done: whether it called initWasm(), the file
\* and engine operations it made in order, the arguments of its callMain, the
\* names it passed to unlink, the bytes arrayBuffer() resolved to, whether it
\* set the busy flag, whether it cleared fileInput.value, the main and the
\* sub text of the result it reported (onStatus with a state other than
\* 'processing'), whether it has settled; the bytes it wrote to staging, its source buffer as it leaves it,
\* the staging entries it leaves in the engine's filesystem, the object
\* URLs it created and did not revoke, and the staging names of the last
\* direct call before it that generated names.
CallRec(init, ops, flagSet, inputCleared, reported, done) ==
    [initWasm |-> init, ops |-> ops, args |-> << >>, unlinked |-> << >>,
     bytes |-> << >>, flagSet |-> flagSet, inputCleared |-> inputCleared,
     reported |-> reported, done |-> done,
     sub |-> "none", written |-> << >>, buffer |-> << >>,
     left |-> << >>, urls |-> 0, prev |-> << >>]
NoCall == CallRec(FALSE, << >>, FALSE, FALSE, "none", FALSE)

\* ------------------------------------------------------------------ Init
\* The state once app.js has run: the bootstrap initWasm() has been called.
\* With no Module function it has already thrown, and the catch of app.js
\* has shown its error; otherwise the factory is loading.
Init ==
    /\ hostEnv \in {"ok", "noModule", "blocked"}
    /\ qpdfModule = FALSE
    /\ wasmSupportStatus = "unknown"
    /\ bootPc = IF hostEnv = "noModule" THEN "done" ELSE "pending"
    /\ isProcessing = FALSE
    /\ isQueueRunning = FALSE
    /\ fileQueue = << >>
    /\ pc = "idle"
    /\ ret = "none"
    /\ callReturnBlob = FALSE
    /\ useZip = FALSE
    /\ totalFilesThisBatch = 0
    /\ currentProcessed = 0
    /\ successfulBlobs = 0
    /\ zipEntries = << >>
    /\ status = IF hostEnv = "noModule" THEN Shown("error", "Initialization Error")
                ELSE DefaultStatus
    /\ delayPending = FALSE
    /\ resetPending = FALSE
    /\ admitted = 0
    /\ dispatched = << >>
    /\ inFlight = 0
    /\ activeDrains = 0
    /\ entryCount = 0
    /\ entryTotal = 0
    /\ drainReturnBlobs = {}
    /\ drainSuccesses = 0
    /\ perFileDownloads = 0
    /\ archivesEmitted = 0
    /\ archiveResult = "none"
    /\ objectUrls = 0
    /\ archiveBytes = 0
    /\ lastOutcome = "none"
    /\ call = NoCall
    /\ event = NoEvent

\* ------------------------------------------------------ the service layer
\* What a failed engine load leaves in wasmSupportStatus: a load the host's
\* policy blocks is remembered for the session.
SupportStatusAfterFailure(env, current) ==
    IF env = "blocked" THEN "blocked" ELSE current

\* lines 74-75 and the finally of lines 124-127: the busy flag and
\* fileInput.value when a call that holds the flag ends
ReleaseInputOnly(how) == [busy |-> how = "throws", inputCleared |-> TRUE]
ReleaseFlagOnly(how) == [busy |-> FALSE, inputCleared |-> how = "ok"]
ReleaseOnExit(how) == [busy |-> FALSE, inputCleared |-> TRUE]

\* processFile(null, ...): no file
NoFile == [missing |-> TRUE]

\* line 49: the file is there and its declared type is application/pdf
IsPdfTypedIfPresent(file) == file # NoFile
IsPdfTyped(file) == ~(file = NoFile \/ file.type # PdfType)

\* line 54
TooLargeInclusive(file) == file.size >= MAX_FILE_SIZE_BYTES
TooLarge(file) == file.size > MAX_FILE_SIZE_BYTES

\* line 22: the message initWasm throws when Module is no function
EngineNotLoaded == "QPDF engine failed to load. Please check your internet connection."
\* the content of an exception: its message
ErrorDetails == {"Decryption failed", EngineNotLoaded}

\* line 123: what the catch of processFile hands to onStatus for `error`
CatchReportWithMessage(error) ==
    [state |-> "error", main |-> "Processing Failed", sub |-> error]
CatchReport(error) ==
    [state |-> "error", main |-> "Processing Failed",
     sub |-> "The document appears to be corrupted or too heavily encrypted."]

\* line 59: `if (isProcessing) return null;`, before the try: the flag, the
\* display and the value resolved to
BusyReturnThroughFinally(busy, shown) ==
    [busy |-> FALSE, status |-> shown, ret |-> "null"]
BusyReturn(busy, shown) == [busy |-> busy, status |-> shown, ret |-> "null"]

\* processFile from its entry to its first real suspension (or its return).
\* file: the file; shown: the display at the call.  The result: where the
\* call is (pc), the busy flag, the value resolved to, the display, whether the
\* call holds the flag, the outcome if the call has settled, and what the
\* call has done.
ProcessFileEnterNoFlag(file, shown) ==
    IF ~IsPdfTyped(file)
    THEN [pc |-> "resume", busy |-> isProcessing, ret |-> "undefined",
          status |-> OnStatusThroughCallbacks(shown, "error", "Invalid Format"),
          acq |-> 0, outcome |-> "failure",
          call |-> CallRec(FALSE, << >>, FALSE, FALSE, "Invalid Format", TRUE)]
    ELSE IF TooLarge(file)
    THEN [pc |-> "resume", busy |-> isProcessing, ret |-> "null",
          status |-> OnStatusThroughCallbacks(shown, "error", "File Too Large"),
          acq |-> 0, outcome |-> "failure",
          call |-> CallRec(FALSE, << >>, FALSE, FALSE, "File Too Large", TRUE)]
    ELSE IF isProcessing
    THEN [pc |-> "resume", busy |-> isProcessing, ret |-> "null",
          status |-> shown, acq |-> 0, outcome |-> "failure",
          call |-> CallRec(FALSE, << >>, FALSE, FALSE, "none", TRUE)]
    ELSE IF qpdfModule
    THEN [pc |-> "read", busy |-> FALSE, ret |-> "none",
          status |-> OnStatusThroughCallbacks(shown, "processing", "Unlocking locally..."),
          acq |-> 1, outcome |-> "none",
          call |-> CallRec(FALSE, <<"arrayBuffer">>, FALSE, FALSE, "none", FALSE)]
    ELSE IF hostEnv = "noModule"
    THEN [pc |-> "resume", busy |-> FALSE, ret |-> "undefined",
          status |-> OnStatusThroughCallbacks(shown, "error", "Processing Failed"),
          acq |-> 0, outcome |-> "failure",
          call |-> CallRec(TRUE, << >>, FALSE, ReleaseOnExit("throws").inputCleared,
                           "Processing Failed", TRUE)]
    ELSE [pc |-> "init", busy |-> FALSE, ret |-> "none",
          status |-> OnStatusThroughCallbacks(shown, "processing", "Unlocking locally..."),
          acq |-> 1, outcome |-> "none",
          call |-> CallRec(TRUE, << >>, FALSE, FALSE, "none", FALSE)]

ProcessFileEnter(file, shown) ==
    IF ~IsPdfTyped(file)
    THEN \* lines 49-52: the call returns undefined
         [pc |-> "resume", busy |-> isProcessing, ret |-> "undefined",
          status |-> OnStatusThroughCallbacks(shown, "error", "Invalid Format"),
          acq |-> 0, outcome |-> "failure",
          call |-> CallRec(FALSE, << >>, FALSE, FALSE, "Invalid Format", TRUE)]
    ELSE IF TooLarge(file)
    THEN \* lines 54-57
         [pc |-> "resume", busy |-> isProcessing, ret |-> "null",
          status |-> OnStatusThroughCallbacks(shown, "error", "File Too Large"),
          acq |-> 0, outcome |-> "failure",
          call |-> CallRec(FALSE, << >>, FALSE, FALSE, "File Too Large", TRUE)]
    ELSE IF isProcessing
    THEN \* line 59: busy, the call returns null and leaves the flag alone
         LET b == BusyReturn(isProcessing, shown)
         IN [pc |-> "resume", busy |-> b.busy, ret |-> b.ret,
             status |-> b.status, acq |-> 0, outcome |-> "failure",
             call |-> CallRec(FALSE, << >>, FALSE, FALSE, "none", TRUE)]
    ELSE IF qpdfModule
    THEN \* the engine is set: the call suspends at file.arrayBuffer()
         [pc |-> "read", busy |-> TRUE, ret |-> "none",
          status |-> OnStatusThroughCallbacks(shown, "processing", "Unlocking locally..."),
          acq |-> 1, outcome |-> "none",
          call |-> CallRec(FALSE, <<"arrayBuffer">>, TRUE, FALSE, "none", FALSE)]
    ELSE IF hostEnv = "noModule"
    THEN \* initWasm throws at once: catch, finally, and the call falls off
         \* its end, in microtasks
         LET caught == CatchReport(EngineNotLoaded)
         IN [pc |-> "resume", busy |-> ReleaseOnExit("throws").busy,
             ret |-> "undefined",
             status |-> OnStatusThroughCallbacks(shown, caught.state, caught.main),
             acq |-> 0, outcome |-> "failure",
             call |-> [CallRec(TRUE, << >>, TRUE,
                               ReleaseOnExit("throws").inputCleared,
                               caught.main, TRUE)
                         EXCEPT !.sub = caught.sub]]
    ELSE \* initWasm calls the factory: the call suspends while it loads
         [pc |-> "init", busy |-> TRUE, ret |-> "none",
          status |-> OnStatusThroughCallbacks(shown, "processing", "Unlocking locally..."),
          acq |-> 1, outcome |-> "none",
          call |-> CallRec(TRUE, << >>, TRUE, FALSE, "none", FALSE)]

\* the bytes a file may hold: none, three bytes of the signature, a wrong last
\* byte, a wrong first byte, and a signed buffer
FileContents ==
    { << >>, <<37, 80, 68>>, <<37, 80, 68, 71>>, <<0, 80, 68, 70>>,
      <<37, 80, 68, 70, 0>> }

\* lines 70-72: the buffer starts with 0x25 0x50 0x44 0x46
HasPdfSignatureFirstByte(bytes) == ~(Len(bytes) < 1 \/ bytes[1] # 37)
HasPdfSignature(bytes) ==
    ~(Len(bytes) < 4 \/ bytes[1] # 37 \/ bytes[2] # 80 \/ bytes[3] # 68
                     \/ bytes[4] # 70)

\* what the file and the engine do in one call: arrayBuffer() may reject, and
\* writeFile, callMain, readFile and either unlink may throw
EngineBehaviours ==
    {"healthy", "readRejects", "writeThrows", "decryptThrows", "readFileThrows",
     "unlinkInputThrows", "unlinkOutputThrows"}

\* the values of Date.now() at lines 79 and 80
Instants == 1..2

\* lines 79-80: `input_${Date.now()}.pdf` and `output_${Date.now()}.pdf`
StagingNameNoPrefix(prefix, now) == <<"file", now>>
StagingName(prefix, now) == <<prefix, now>>

\* line 84: uint8Array.fill(0)
ZeroFillNothing(bytes) == bytes
ZeroFill(bytes) == [i \in 1..Len(bytes) |-> 0]

\* lines 90-95: the two unlinks, each in a try of its own: the operations
\* made, the names passed to unlink, the entries still in the filesystem
CleanupInOneTry(eng, inputName, outputName) ==
    IF eng = "unlinkInputThrows"
    THEN [ops |-> <<"unlink", "warn">>, unlinked |-> <<inputName>>,
          left |-> <<inputName, outputName>>]
    ELSE IF eng = "unlinkOutputThrows"
    THEN [ops |-> <<"unlink", "unlink", "warn">>,
          unlinked |-> <<inputName, outputName>>, left |-> <<outputName>>]
    ELSE [ops |-> <<"unlink", "unlink">>, unlinked |-> <<inputName, outputName>>,
          left |-> << >>]
Cleanup(eng, inputName, outputName) ==
    IF eng = "unlinkInputThrows"
    THEN [ops |-> <<"unlink", "warn", "unlink">>,
          unlinked |-> <<inputName, outputName>>, left |-> <<inputName>>]
    ELSE IF eng = "unlinkOutputThrows"
    THEN [ops |-> <<"unlink", "unlink", "warn">>,
          unlinked |-> <<inputName, outputName>>, left |-> <<outputName>>]
    ELSE [ops |-> <<"unlink", "unlink">>, unlinked |-> <<inputName, outputName>>,
          left |-> << >>]

\* lines 66-95 once arrayBuffer() has settled, with the buffer `bytes`, the
\* behaviour `eng` and the clock values now1, now2: how the call ends
\* ("badSig", "throws", "ok"), what it did after calling arrayBuffer() (an
\* operation that threw is followed by "throw", or by "warn" where the throw
\* is caught and logged), the arguments of callMain, the names passed to
\* unlink, the bytes it has seen, the bytes written to staging, the source
\* buffer at the end, the staging entries left in the filesystem.
ProcessFileRun(bytes, eng, now1, now2) ==
    LET inputName == StagingName("input", now1)
        outputName == StagingName("output", now2)
        decryptArgs == <<"--decrypt", inputName, outputName>>
        Ended(how, ops, args, unlinked, seen, written, buffer, left) ==
            [how |-> how, ops |-> ops, args |-> args, unlinked |-> unlinked,
             bytes |-> seen, written |-> written, buffer |-> buffer,
             left |-> left]
    IN IF eng = "readRejects"
       THEN \* line 66 throws: the catch
            Ended("throws", <<"throw">>, << >>, << >>, << >>, << >>, << >>, << >>)
       ELSE IF ~HasPdfSignature(bytes)
       THEN \* lines 70-77
            Ended("badSig", <<"Uint8Array">>, << >>, << >>, bytes, << >>, bytes, << >>)
       ELSE IF eng = "writeThrows"
       THEN \* line 82 throws: nothing is staged, line 84 is not reached
            Ended("throws", <<"Uint8Array", "writeFile", "throw">>, << >>, << >>,
                  bytes, << >>, bytes, << >>)
       ELSE IF eng = "decryptThrows"
       THEN \* line 86 throws: lines 87-119 are skipped
            Ended("throws", <<"Uint8Array", "writeFile", "fill", "callMain", "throw">>,
                  decryptArgs, << >>, bytes, bytes, ZeroFill(bytes), <<inputName>>)
       ELSE IF eng = "readFileThrows"
       THEN \* line 87 throws
            Ended("throws",
                  <<"Uint8Array", "writeFile", "fill", "callMain", "readFile", "throw">>,
                  decryptArgs, << >>, bytes, bytes, ZeroFill(bytes), <<inputName>>)
       ELSE \* lines 90-95
            LET c == Cleanup(eng, inputName, outputName)
            IN Ended("ok",
                     <<"Uint8Array", "writeFile", "fill", "callMain", "readFile">>
                        \o c.ops,
                     decryptArgs, c.unlinked, bytes, bytes, ZeroFill(bytes), c.left)

\* every way lines 66-95 can go
ProcessFileRuns ==
    { ProcessFileRun(bytes, eng, now[1], now[2]) :
        bytes \in FileContents, eng \in EngineBehaviours,
        now \in {t \in Instants \X Instants : t[1] <= t[2]} }

\* lines 98 and 115: the object URLs a call has created and not revoked
ObjectUrlsAfter(how, returnBlob) == IF how = "ok" /\ returnBlob THEN 1 ELSE 0

\* the result a call reported through onStatus, if it reported one
Reported(before, after) == IF after = before THEN "none" ELSE after.main

\* processFile once the bytes are read: what the call resolves to, whether
\* it emitted its own download, the display.  how: "badSig" (no %PDF
\* header), "throws" (arrayBuffer rejects, or write, decrypt or read throws),
\* "ok".
ReadOutcomes == {"badSig", "throws", "ok"}

ProcessFileSettleAlwaysBlob(how, returnBlob, shown) ==
    IF how = "badSig"
    THEN [ret |-> "null", download |-> FALSE, success |-> FALSE,
          status |-> OnStatusThroughCallbacks(shown, "error", "Invalid PDF")]
    ELSE IF how = "throws"
    THEN [ret |-> "undefined", download |-> FALSE, success |-> FALSE,
          status |-> OnStatusThroughCallbacks(shown, "error", "Processing Failed")]
    ELSE [ret |-> "blob", download |-> FALSE, success |-> TRUE, status |-> shown]

ProcessFileSettleAlwaysDownload(how, returnBlob, shown) ==
    IF how = "badSig"
    THEN [ret |-> "null", download |-> FALSE, success |-> FALSE,
          status |-> OnStatusThroughCallbacks(shown, "error", "Invalid PDF")]
    ELSE IF how = "throws"
    THEN [ret |-> "undefined", download |-> FALSE, success |-> FALSE,
          status |-> OnStatusThroughCallbacks(shown, "error", "Processing Failed")]
    ELSE [ret |-> IF returnBlob THEN "blob" ELSE "null", download |-> TRUE,
          success |-> TRUE,
          status |-> OnStatusThroughCallbacks(shown, "success", "Success! Downloading...")]

ProcessFileSettle(how, returnBlob, shown) ==
    IF how = "badSig"
    THEN \* lines 70-77
         [ret |-> "null", download |-> FALSE, success |-> FALSE,
          status |-> OnStatusThroughCallbacks(shown, "error", "Invalid PDF")]
    ELSE IF how = "throws"
    THEN \* lines 121-123: the catch; the call resolves to undefined
         [ret |-> "undefined", download |-> FALSE, success |-> FALSE,
          status |-> OnStatusThroughCallbacks(shown, "error", "Processing Failed")]
    ELSE IF returnBlob
    THEN \* lines 104-106
         [ret |-> "blob", download |-> FALSE, success |-> TRUE, status |-> shown]
    ELSE \* lines 107-119
         [ret |-> "null", download |-> TRUE, success |-> TRUE,
          status |-> OnStatusThroughCallbacks(shown, "success", "Success! Downloading...")]

\* ------------------------------------------------------ the queue manager
SumSizes(q) ==
    LET Sum[k \in 0..Len(q)] == IF k = 0 THEN 0 ELSE Sum[k - 1] + q[k].size
    IN Sum[Len(q)]

\* lines 125-127
UseZipAtLimit(q) == (SumSizes(q) <= ZIP_MEMORY_LIMIT_BYTES) /\ (Len(q) > 1)
UseZip(q) == (SumSizes(q) < ZIP_MEMORY_LIMIT_BYTES) /\ (Len(q) > 1)

\* line 132: the loop condition
KeepDrainingUnlessFailed(q) == Len(q) > 0 /\ ret # "undefined"
KeepDraining(q) == Len(q) > 0

\* line 133: shift() takes the head
NextFileFromTail(q) == [file |-> q[Len(q)], rest |-> SubSeq(q, 1, Len(q) - 1)]
NextFile(q) == [file |-> Head(q), rest |-> Tail(q)]

\* line 140: the config handed to processFile
ReturnBlobArg(zipMode) == zipMode

\* processQueue from the head of its while loop, with queue q, `processed`
\* files counted, `blobs` successes and `drains` drain loops active, to the
\* next real suspension: the next file is dispatched, or the loop is left for
\* the archive step or for the end of the drain.
DrainLoop(q, processed, total, zipMode, blobs, drains, bytes) ==
    IF KeepDraining(q)
    THEN LET nf == NextFile(q)
             rb == ReturnBlobArg(zipMode)
             r == ProcessFileEnter(nf.file, Progress(processed + 1, total))
         IN /\ fileQueue' = nf.rest
            /\ currentProcessed' = processed + 1
            /\ dispatched' = Append(dispatched, nf.file.id)
            /\ drainReturnBlobs' = IF processed = 0 THEN {rb}
                                   ELSE drainReturnBlobs \cup {rb}
            /\ callReturnBlob' = rb
            /\ pc' = r.pc
            /\ ret' = r.ret
            /\ isProcessing' = r.busy
            /\ status' = r.status
            /\ inFlight' = inFlight + r.acq
            /\ lastOutcome' = r.outcome
            /\ call' = r.call
            /\ archiveBytes' = IF rb THEN bytes + nf.file.size ELSE bytes
            /\ isQueueRunning' = TRUE
            /\ activeDrains' = drains
            /\ UNCHANGED delayPending
    ELSE IF zipMode /\ blobs > 0
    THEN \* lines 150-153: suspended in zip.generateAsync
         /\ status' = Shown("processing", "Compressing files...")
         /\ pc' = "zip"
         /\ isQueueRunning' = TRUE
         /\ activeDrains' = drains
         /\ fileQueue' = q
         /\ currentProcessed' = processed
         /\ call' = NoCall
         /\ archiveBytes' = bytes
         /\ UNCHANGED << dispatched, drainReturnBlobs, callReturnBlob, ret,
                         isProcessing, inFlight, lastOutcome, delayPending >>
    ELSE \* lines 169-173
         /\ isQueueRunning' = FALSE
         /\ activeDrains' = drains - 1
         /\ delayPending' = TRUE
         /\ pc' = "idle"
         /\ fileQueue' = q
         /\ currentProcessed' = processed
         /\ call' = NoCall
         /\ archiveBytes' = bytes
         /\ UNCHANGED << dispatched, drainReturnBlobs, callReturnBlob, ret,
                         isProcessing, inFlight, lastOutcome, status >>

\* lines 119-130, then the loop
StartDrain(q) ==
    /\ totalFilesThisBatch' = Len(q)
    /\ useZip' = UseZip(q)
    /\ successfulBlobs' = 0
    /\ zipEntries' = << >>
    /\ entryCount' = Len(q)
    /\ entryTotal' = SumSizes(q)
    /\ drainSuccesses' = 0
    /\ perFileDownloads' = 0
    /\ archivesEmitted' = 0
    /\ archiveResult' = "none"
    /\ objectUrls' = 0
    /\ DrainLoop(q, 0, Len(q), UseZip(q), 0, activeDrains + 1, 0)

\* a call of processQueue that finds a drain running returns at line 118
MergeIntoRunningDrain(q) ==
    /\ fileQueue' = q
    /\ UNCHANGED << isQueueRunning, pc, ret, callReturnBlob, isProcessing,
                    currentProcessed, status, delayPending, dispatched,
                    inFlight, activeDrains, lastOutcome, call, useZip,
                    totalFilesThisBatch, successfulBlobs, zipEntries,
                    entryCount, entryTotal, drainReturnBlobs, drainSuccesses,
                    perFileDownloads, archivesEmitted, archiveResult,
                    objectUrls, archiveBytes >>

ProcessQueueUnguarded(q) == StartDrain(q)
ProcessQueue(q) ==
    IF isQueueRunning THEN MergeIntoRunningDrain(q) ELSE StartDrain(q)

\* line 203
FilterPdfKeepAll(fileList) == fileList
FilterPdf(fileList) == SelectSeq(fileList, LAMBDA f : f.type = PdfType)

\* line 214: push(...files)
Push(q, files) == q \o files

\* lines 209: the batch ceiling
OverBatchLimitNever(files) == FALSE
OverBatchLimit(files) == Len(files) > MAX_BATCH_FILES

\* the bound of the model: a session admits MaxFiles files from the batches
\* that are within the ceiling
WithinSessionBound(files) ==
    admitted + Len(files) <= MaxFiles \/ Len(files) > MAX_BATCH_FILES

\* A rejection of queueFiles: its status and, after lines 204-213, resetState
Reject(main, withReset) ==
    /\ status' = Shown("error", main)
    /\ resetPending' = (withReset \/ resetPending)
    /\ UNCHANGED << fileQueue, admitted, isQueueRunning, pc, ret, callReturnBlob,
                    isProcessing, currentProcessed, delayPending, dispatched,
                    inFlight, activeDrains, lastOutcome, call, useZip,
                    totalFilesThisBatch, successfulBlobs, zipEntries,
                    entryCount, entryTotal, drainReturnBlobs, drainSuccesses,
                    perFileDownloads, archivesEmitted, archiveResult,
                    objectUrls, archiveBytes >>

\* queueFiles(fileList), as the drop and change handlers call it, with the
\* processQueue call it ends in
QueueFiles(fileList) ==
    /\ pc # "resume"
    /\ event' = [op |-> "queueFiles", fileList |-> fileList]
    /\ UNCHANGED << hostEnv, qpdfModule, wasmSupportStatus, bootPc >>
    /\ IF wasmSupportStatus = "blocked"
       THEN Reject("Browser Restricted", FALSE)
       ELSE LET files == FilterPdf(fileList) IN
            IF Len(files) = 0 THEN Reject("Invalid Format", TRUE)
            ELSE IF OverBatchLimit(files) THEN Reject("Batch Limit Exceeded", TRUE)
            ELSE /\ WithinSessionBound(files)
                 /\ LET stamped == [k \in 1..Len(files) |->
                                      [id |-> admitted + k,
                                       type |-> files[k].type,
                                       size |-> files[k].size]]
                    IN /\ admitted' = admitted + Len(files)
                       /\ ProcessQueue(Push(fileQueue, stamped))
                 /\ UNCHANGED resetPending

\* the names of the files, as sequences of characters: the k-th file admitted
\* in a session has the k-th name (and so on again from the first)
FileNames ==
    << <<"a", ".", "p", "d", "f">>, <<"a", ".", "P", "D", "F">>,
       <<"b", ".", "p", "d", "f">>, <<"a", ".", "p", "d", "f">> >>
FileName(id) == FileNames[((id - 1) % Len(FileNames)) + 1]

\* String.prototype.toLowerCase on the characters the names use
ToLowerCase(name) ==
    [i \in 1..Len(name) |->
        CASE name[i] = "P" -> "p" [] name[i] = "D" -> "d" [] name[i] = "F" -> "f"
          [] OTHER -> name[i]]
EndsWith(name, suffix) ==
    /\ Len(name) >= Len(suffix)
    /\ SubSeq(name, Len(name) - Len(suffix) + 1, Len(name)) = suffix

\* lines 143-145: the name of the archive entry for a file named `name`
EntryName(name) ==
    LET nameWithoutExt ==
            IF EndsWith(ToLowerCase(name), <<".", "p", "d", "f">>)
            THEN SubSeq(name, 1, Len(name) - 4) ELSE name
    IN nameWithoutExt \o <<"_unlocked.pdf">>

\* line 145: zip.file(name, blob) adds the entry, or replaces the entry of
\* that name; the archive as the set of <<entry name, file id>>
ZipFile(archive, name, id) ==
    {e \in archive : e[1] # name} \cup {<<name, id>>}

\* the archive after the zip.file calls for the files `ids`, in order
RECURSIVE ArchiveOf(_)
ArchiveOf(ids) ==
    IF ids = << >> THEN {}
    ELSE ZipFile(ArchiveOf(SubSeq(ids, 1, Len(ids) - 1)),
                 EntryName(FileName(ids[Len(ids)])), ids[Len(ids)])

\* processQueue resumes after `await processFile(...)`: lines 142-147, then
\* the loop
Resume ==
    /\ pc = "resume"
    /\ event' = NoEvent
    /\ LET kept == useZip /\ ret = "blob"
           blobs == IF kept THEN successfulBlobs + 1 ELSE successfulBlobs
       IN /\ successfulBlobs' = blobs
          /\ zipEntries' = IF kept THEN Append(zipEntries, dispatched[Len(dispatched)])
                           ELSE zipEntries
          /\ DrainLoop(fileQueue, currentProcessed, totalFilesThisBatch, useZip,
                       blobs, activeDrains, archiveBytes)
    /\ UNCHANGED << hostEnv, qpdfModule, wasmSupportStatus, bootPc, useZip,
                    totalFilesThisBatch, resetPending, admitted, entryCount,
                    entryTotal, drainSuccesses, perFileDownloads,
                    archivesEmitted, archiveResult, objectUrls >>

\* the factory called by processFile's initWasm() settles (lines 24-33, 64)
InitDone ==
    /\ pc = "init"
    /\ event' = NoEvent
    /\ \E loaded \in IF hostEnv = "ok" THEN BOOLEAN ELSE {FALSE},
          error \in ErrorDetails :
         IF loaded
         THEN \* line 66: the call goes on to file.arrayBuffer()
              /\ qpdfModule' = TRUE
              /\ pc' = "read"
              /\ call' = [call EXCEPT !.ops = Append(@, "arrayBuffer")]
              /\ UNCHANGED << wasmSupportStatus, isProcessing, ret, status,
                              inFlight, lastOutcome >>
         ELSE \* the catch and the finally of processFile
              /\ wasmSupportStatus' = SupportStatusAfterFailure(hostEnv, wasmSupportStatus)
              /\ status' = OnStatusThroughCallbacks(status, CatchReport(error).state,
                                                     CatchReport(error).main)
              /\ isProcessing' = ReleaseOnExit("throws").busy
              /\ call' = [call EXCEPT !.inputCleared = ReleaseOnExit("throws").inputCleared,
                                       !.reported = CatchReport(error).main,
                                       !.sub = CatchReport(error).sub,
                                       !.done = TRUE]
              /\ inFlight' = inFlight - 1
              /\ ret' = "undefined"
              /\ lastOutcome' = "failure"
              /\ pc' = "resume"
              /\ UNCHANGED qpdfModule
    /\ UNCHANGED << hostEnv, bootPc, isQueueRunning, fileQueue, callReturnBlob,
                    useZip, totalFilesThisBatch, currentProcessed,
                    successfulBlobs, zipEntries, delayPending, resetPending,
                    admitted, dispatched, activeDrains, entryCount, entryTotal,
                    drainReturnBlobs, drainSuccesses, perFileDownloads,
                    archivesEmitted, archiveResult,
                    objectUrls, archiveBytes >>

\* file.arrayBuffer() settles and processFile runs to its end (lines 66-127)
ReadDone ==
    /\ pc = "read"
    /\ event' = NoEvent
    /\ \E run \in ProcessFileRuns :
       \E error \in IF run.how = "throws" THEN ErrorDetails ELSE {"none"} :
         /\ LET r == ProcessFileSettle(run.how, callReturnBlob, status)
                rel == ReleaseOnExit(run.how)
                caught == CatchReport(error)
                shown == IF run.how = "throws"
                         THEN OnStatusThroughCallbacks(status, caught.state, caught.main)
                         ELSE r.status
            IN /\ run.how \in ReadOutcomes
               \* Date.now() does not go back: lines 79-80 read it after the
               \* previous call read it; the first reading is instant 1
               /\ IF run.args = << >> THEN TRUE
                  ELSE IF call.prev = << >> THEN run.args[2][2] = 1
                  ELSE run.args[2][2] >= call.prev[2][2]
               /\ ret' = r.ret
               /\ status' = shown
               /\ perFileDownloads' = IF r.download THEN perFileDownloads + 1
                                      ELSE perFileDownloads
               /\ drainSuccesses' = IF r.success THEN drainSuccesses + 1
                                    ELSE drainSuccesses
               /\ lastOutcome' = IF r.success THEN "success" ELSE "failure"
               /\ isProcessing' = rel.busy
               /\ objectUrls' = objectUrls + ObjectUrlsAfter(run.how, callReturnBlob)
               /\ UNCHANGED archiveBytes
               /\ call' = [call EXCEPT !.ops = @ \o run.ops,
                                       !.args = run.args,
                                       !.unlinked = run.unlinked,
                                       !.bytes = run.bytes,
                                       !.inputCleared = rel.inputCleared,
                                       !.reported = Reported(status, shown),
                                       !.sub = IF run.how = "throws" THEN caught.sub
                                               ELSE "none",
                                       !.written = run.written,
                                       !.buffer = run.buffer,
                                       !.left = run.left,
                                       !.urls = ObjectUrlsAfter(run.how, callReturnBlob),
                                       !.done = TRUE]
    /\ inFlight' = inFlight - 1
    /\ pc' = "resume"
    /\ UNCHANGED << hostEnv, qpdfModule, wasmSupportStatus, bootPc,
                    isQueueRunning, fileQueue, callReturnBlob, useZip,
                    totalFilesThisBatch, currentProcessed, successfulBlobs,
                    zipEntries, delayPending, resetPending, admitted,
                    dispatched, activeDrains, entryCount, entryTotal,
                    drainReturnBlobs, archivesEmitted, archiveResult >>

\* zip.generateAsync() settles: lines 153-173
ArchiveOutcomeSuccessAfterCatch(built) ==
    [emitted |-> IF built THEN 1 ELSE 0,
     result |-> IF built THEN "ok" ELSE "failed",
     created |-> IF built THEN 1 ELSE 0,
     revoked |-> IF built THEN 1 ELSE 0,
     status |-> Shown("success", "Success! Downloading ZIP...")]
ArchiveOutcome(built) ==
    IF built
    THEN \* lines 153-162: the URL is created (154), clicked and revoked (161)
         [emitted |-> 1, result |-> "ok", created |-> 1, revoked |-> 1,
          status |-> Shown("success", "Success! Downloading ZIP...")]
    ELSE \* generateAsync rejects: lines 163-166
         [emitted |-> 0, result |-> "failed", created |-> 0, revoked |-> 0,
          status |-> Shown("error", "ZIP Failed")]

ZipDone ==
    /\ pc = "zip"
    /\ event' = NoEvent
    /\ \E built \in BOOLEAN :
         LET a == ArchiveOutcome(built)
         IN /\ archivesEmitted' = archivesEmitted + a.emitted
            /\ archiveResult' = a.result
            /\ status' = a.status
            /\ objectUrls' = objectUrls + a.created - a.revoked
    /\ UNCHANGED archiveBytes
    /\ isQueueRunning' = FALSE
    /\ activeDrains' = activeDrains - 1
    /\ delayPending' = TRUE
    /\ pc' = "idle"
    /\ UNCHANGED << hostEnv, qpdfModule, wasmSupportStatus, bootPc, isProcessing,
                    fileQueue, ret, callReturnBlob, useZip, totalFilesThisBatch,
                    currentProcessed, successfulBlobs, zipEntries, resetPending,
                    admitted, dispatched, inFlight, entryCount, entryTotal,
                    drainReturnBlobs, drainSuccesses, perFileDownloads,
                    lastOutcome,
                    call >>

\* the bootstrap initWasm() of app.js settles (app.js lines 18-25)
BootDone ==
    /\ bootPc = "pending"
    /\ pc # "resume"
    /\ event' = NoEvent
    /\ bootPc' = "done"
    /\ \E loaded \in IF hostEnv = "ok" THEN BOOLEAN ELSE {FALSE} :
         IF loaded
         THEN /\ qpdfModule' = TRUE
              /\ UNCHANGED << wasmSupportStatus, status >>
         ELSE /\ wasmSupportStatus' = SupportStatusAfterFailure(hostEnv, wasmSupportStatus)
              /\ status' = IF wasmSupportStatus' = "blocked"
                           THEN Shown("error", "Browser Restricted")
                           ELSE Shown("error", "Initialization Error")
              /\ UNCHANGED qpdfModule
    /\ UNCHANGED << hostEnv, isProcessing, isQueueRunning, fileQueue, pc, ret,
                    callReturnBlob, useZip, totalFilesThisBatch,
                    currentProcessed, successfulBlobs, zipEntries, delayPending,
                    resetPending, admitted, dispatched, inFlight, activeDrains,
                    entryCount, entryTotal, drainReturnBlobs, drainSuccesses,
                    perFileDownloads, archivesEmitted, archiveResult,
                    objectUrls, archiveBytes,
                    lastOutcome, call >>

\* the 4000 ms timer of processQueue fires and calls resetState (lines 171-173)
DelayFire ==
    /\ delayPending
    /\ pc # "resume"
    /\ event' = NoEvent
    /\ delayPending' = FALSE
    /\ resetPending' = TRUE
    /\ UNCHANGED << hostEnv, qpdfModule, wasmSupportStatus, bootPc, isProcessing,
                    isQueueRunning, fileQueue, pc, ret, callReturnBlob, useZip,
                    totalFilesThisBatch, currentProcessed, successfulBlobs,
                    zipEntries, status, admitted, dispatched, inFlight,
                    activeDrains, entryCount, entryTotal, drainReturnBlobs,
                    drainSuccesses, perFileDownloads, archivesEmitted,
                    archiveResult,
                    objectUrls, archiveBytes, lastOutcome,
                    call >>

\* line 88: the guard of the deferred reset
ResetAllowedWhenSupported(busy, running, support) == support # "blocked"
ResetAllowedUnlessBusy(busy, running, support) == ~busy /\ ~running
ResetAllowed(busy, running, support) == ~busy /\ ~running /\ support # "blocked"

\* the 6000 ms timer of resetState fires (lines 85-91)
ResetFire ==
    /\ resetPending
    /\ pc # "resume"
    /\ event' = [op |-> "resetState", fileList |-> << >>]
    /\ resetPending' = FALSE
    /\ status' = IF ResetAllowed(isProcessing, isQueueRunning, wasmSupportStatus)
                 THEN DefaultStatus ELSE status
    /\ UNCHANGED << hostEnv, qpdfModule, wasmSupportStatus, bootPc, isProcessing,
                    isQueueRunning, fileQueue, pc, ret, callReturnBlob, useZip,
                    totalFilesThisBatch, currentProcessed, successfulBlobs,
                    zipEntries, delayPending, admitted, dispatched, inFlight,
                    activeDrains, entryCount, entryTotal, drainReturnBlobs,
                    drainSuccesses, perFileDownloads, archivesEmitted,
                    archiveResult,
                    objectUrls, archiveBytes, lastOutcome,
                    call >>

Next ==
    \/ \E fileList \in Submissions : QueueFiles(fileList)
    \/ Resume
    \/ InitDone
    \/ ReadDone
    \/ ZipDone
    \/ BootDone
    \/ DelayFire
    \/ ResetFire

Spec == Init /\ [][Next]_vars

\* ------------------------------------------- the service layer called directly
\* The service layer under a caller other than the queue manager, as the tests
\* of tests/pdfService.test.js call it: processFile with any file, also no
\* file and a file that is no PDF, in either output mode, also while an
\* earlier call is suspended.
ServiceSizes == {MiB, MAX_FILE_SIZE_BYTES, MAX_FILE_SIZE_BYTES + 1}
ServiceFiles ==
    {NoFile} \cup {[type |-> t, size |-> z] : t \in {PdfType, OtherType},
                                              z \in ServiceSizes}

\* processFile(file, callbacks, {returnBlob}), the k-th call of the session.
\* A call made while an earlier one is suspended runs to its return at once.
CallProcessFile(file, returnBlob) ==
    /\ pc \in {"idle", "init", "read"}
    /\ Len(dispatched) < MaxFiles
    /\ event' = [op |-> "processFile", fileList |-> <<file>>,
                 ret |-> ProcessFileEnter(file, status).ret]
    /\ dispatched' = Append(dispatched, Len(dispatched) + 1)
    /\ LET r == ProcessFileEnter(file, status)
       IN /\ status' = r.status
          /\ isProcessing' = r.busy
          /\ inFlight' = inFlight + r.acq
          /\ IF pc = "idle"
             THEN /\ pc' = r.pc
                  /\ ret' = r.ret
                  /\ callReturnBlob' = returnBlob
                  /\ lastOutcome' = r.outcome
                  /\ call' = [r.call EXCEPT !.prev = call.prev]
             ELSE /\ r.pc = "resume"
                  /\ UNCHANGED << pc, ret, callReturnBlob, lastOutcome, call >>
    /\ UNCHANGED << hostEnv, qpdfModule, wasmSupportStatus, bootPc,
                    isQueueRunning, fileQueue, useZip, totalFilesThisBatch,
                    currentProcessed, successfulBlobs, zipEntries, delayPending,
                    resetPending, admitted, activeDrains, entryCount, entryTotal,
                    drainReturnBlobs, drainSuccesses, perFileDownloads,
                    archivesEmitted, archiveResult,
                    objectUrls, archiveBytes >>

\* the caller's `await processFile(...)` resumes with the result
Return ==
    /\ pc = "resume"
    /\ event' = NoEvent
    /\ pc' = "idle"
    /\ call' = [NoCall EXCEPT !.prev = IF call.args = << >> THEN call.prev
                                       ELSE <<call.args[2], call.args[3]>>]
    /\ UNCHANGED << hostEnv, qpdfModule, wasmSupportStatus, bootPc, isProcessing,
                    isQueueRunning, fileQueue, ret, callReturnBlob, useZip,
                    totalFilesThisBatch, currentProcessed, successfulBlobs,
                    zipEntries, status, delayPending, resetPending, admitted,
                    dispatched, inFlight, activeDrains, entryCount, entryTotal,
                    drainReturnBlobs, drainSuccesses, perFileDownloads,
                    archivesEmitted, archiveResult,
                    objectUrls, archiveBytes, lastOutcome >>

NextService ==
    \/ \E file \in ServiceFiles, returnBlob \in BOOLEAN :
           CallProcessFile(file, returnBlob)
    \/ Return
    \/ InitDone
    \/ ReadDone
    \/ BootDone

SpecService == Init /\ [][NextService]_vars

\* ================================================================ claims
PdfsOf(fileList) == SelectSeq(fileList, LAMBDA e : e.type = "application/pdf")
Stamped(entries, from) ==
    [k \in 1..Len(entries) |->
        [id |-> from + k, type |-> entries[k].type, size |-> entries[k].size]]
IsSubmission == event.op = "queueFiles"
\* more files have entered the running drain than it counted at its entry
MergedDuringDrain == currentProcessed + Len(fileQueue) > totalFilesThisBatch

\* C1: at every instant at most one processFile call is past the busy check
\* and has not yet released the flag, and the flag is set while a call holds it.
C1_OneDecodeInFlight == inFlight <= 1 /\ (inFlight = 1 => isProcessing)
\* a submission arrived and was queued while a decode was in flight
C1_Witness ==
    IsSubmission /\ inFlight = 1 /\ pc \in {"init", "read"} /\ MergedDuringDrain

\* C2: at most one drain loop is active, and a submission admitted while a
\* drain runs only appends its files to the tail of the queue.
C2_SingleDrain ==
    /\ [](activeDrains <= 1 /\ (isQueueRunning <=> activeDrains = 1))
    /\ [][ (isQueueRunning /\ admitted' # admitted) =>
             /\ fileQueue' = fileQueue \o Stamped(PdfsOf(event'.fileList), admitted)
             /\ activeDrains' = activeDrains
             /\ pc' = pc /\ dispatched' = dispatched
             /\ useZip' = useZip /\ totalFilesThisBatch' = totalFilesThisBatch ]_vars
C2_Witness ==
    IsSubmission /\ isQueueRunning /\ activeDrains = 1 /\ MergedDuringDrain
    /\ fileQueue[Len(fileQueue)].id = admitted

\* C3: files are dispatched in the order they were admitted, each at most
\* once: the k-th processFile call is for the k-th admitted file.
C3_FifoDispatch ==
    /\ Len(dispatched) <= admitted
    /\ \A k \in 1..Len(dispatched) : dispatched[k] = k
    /\ \A k \in 1..Len(fileQueue) : fileQueue[k].id = Len(dispatched) + k
\* three files dispatched, the last of them merged into the running drain
C3_Witness ==
    Len(dispatched) = 3 /\ currentProcessed > totalFilesThisBatch /\ isQueueRunning

\* C4: when processFile has settled with a failure, the drain goes on: the
\* next queued file is dispatched, the accumulated outputs are kept, and with
\* the queue empty in archive mode they are archived.
C4_FailureDoesNotAbort ==
    [][ (pc = "resume" /\ lastOutcome = "failure") =>
          /\ zipEntries' = zipEntries
          /\ successfulBlobs' = successfulBlobs
          /\ Len(fileQueue) > 0 =>
                /\ dispatched' = Append(dispatched, Head(fileQueue).id)
                /\ fileQueue' = Tail(fileQueue)
                /\ isQueueRunning'
          /\ (Len(fileQueue) = 0 /\ useZip /\ Len(zipEntries) > 0) => pc' = "zip" ]_vars
\* file 1 succeeded, file 2 failed, file 3 was still processed, and the
\* archive of files 1 and 3 was emitted
C4_Witness ==
    archiveResult = "ok" /\ zipEntries = <<1, 3>> /\ drainSuccesses = 2
    /\ currentProcessed = 3

\* C5: whenever the queue manager is idle the queue is empty (so that every
\* admitted file is dispatched).
C5_IdleQueueEmpty == (~isQueueRunning /\ pc = "idle") => fileQueue = << >>

\* C6: the archive mode of a drain is (files at entry > 1) and (their total
\* size < 150 MiB), and every processFile call of the drain receives it.
C6_ArchiveModeFixed ==
    entryCount > 0 =>
        /\ useZip <=> (entryCount > 1 /\ entryTotal < 150 * 1024 * 1024)
        /\ drainReturnBlobs = {useZip}
        /\ totalFilesThisBatch = entryCount
\* two files of 75 MiB, exactly 150 MiB: no archive mode, also for the file
\* merged later
C6_Witness ==
    /\ entryCount = 2 /\ entryTotal = 150 * 1024 * 1024 /\ ~useZip
    /\ currentProcessed = 3 /\ drainReturnBlobs = {FALSE}

DrainEnded == ~isQueueRunning /\ entryCount > 0

\* C7 as stated: at the end of a drain an archive is emitted if and only if
\* archive mode is on and a file succeeded; then exactly one, and no per-file
\* download.
C7_ArchiveIffOriginal ==
    DrainEnded =>
        /\ archivesEmitted >= 1 <=> (useZip /\ drainSuccesses > 0)
        /\ archivesEmitted <= 1
        /\ archivesEmitted = 1 => perFileDownloads = 0
\* C7 amended: at the end of a drain the archive was built if and only if
\* archive mode is on and a file succeeded, and one archive is emitted if and
\* only if the build succeeded; none is emitted while the drain runs, the
\* build starts with the queue empty, and no per-file download is emitted in
\* an archive-mode drain.
C7_ArchiveIffBuilt ==
    /\ [](/\ DrainEnded =>
               /\ archiveResult # "none" <=> (useZip /\ drainSuccesses > 0)
               /\ archivesEmitted = IF archiveResult = "ok" THEN 1 ELSE 0
          /\ isQueueRunning => archivesEmitted = 0 /\ archiveResult = "none"
          /\ (entryCount > 0 /\ useZip) => perFileDownloads = 0)
    /\ [][ (pc # "zip" /\ pc' = "zip") => fileQueue' = << >> ]_vars
C7_Witness ==
    DrainEnded /\ archivesEmitted = 1 /\ drainSuccesses = 2 /\ perFileDownloads = 0

\* C8: without archive mode every success is its own download, emitted
\* by the time processFile has settled, and nothing is accumulated.
C8_InlineDownloads ==
    (entryCount > 0 /\ ~useZip) =>
        /\ perFileDownloads = drainSuccesses
        /\ zipEntries = << >> /\ successfulBlobs = 0
        /\ archiveResult = "none" /\ archivesEmitted = 0
        /\ pc = "resume" => ret # "blob"
\* two files downloaded one by one in a drain without archive mode
C8_Witness ==
    entryCount > 1 /\ ~useZip /\ perFileDownloads = 2 /\ pc = "resume"

BatchLimitShown == Shown("error", "Batch Limit Exceeded")
InvalidFormatShown == Shown("error", "Invalid Format")
BlockedShown == Shown("error", "Browser Restricted")
NothingAdmitted ==
    /\ fileQueue' = fileQueue /\ admitted' = admitted
    /\ dispatched' = dispatched /\ activeDrains' = activeDrains
    /\ isQueueRunning' = isQueueRunning /\ pc' = pc

AdmitsExactlyPdfs ==
    LET all == fileQueue \o Stamped(PdfsOf(event'.fileList), admitted)
    IN /\ admitted' = admitted + Len(PdfsOf(event'.fileList))
       /\ isQueueRunning'
       /\ IF isQueueRunning
          THEN fileQueue' = all /\ dispatched' = dispatched
               /\ activeDrains' = activeDrains /\ status' = status
          ELSE fileQueue' = Tail(all) /\ dispatched' = Append(dispatched, Head(all).id)
               /\ activeDrains' = 1
               /\ status'.main \notin {"Invalid Format", "Batch Limit Exceeded",
                                        "Browser Restricted"}

\* C10 as stated: a submission without a PDF-typed entry is rejected with
\* 'Invalid Format'; an admitted one enqueues exactly its PDF-typed entries.
C10_AdmissionOriginal ==
    [][ event'.op = "queueFiles" =>
          /\ Len(PdfsOf(event'.fileList)) = 0 =>
                status' = InvalidFormatShown /\ NothingAdmitted
          /\ Len(PdfsOf(event'.fileList)) \in 1..20 => AdmitsExactlyPdfs ]_vars
\* C10 amended: the same while WebAssembly is not blocked; while it is
\* blocked every submission is rejected with 'Browser Restricted'.
C10_AdmissionUnlessBlocked ==
    [][ event'.op = "queueFiles" =>
          IF wasmSupportStatus = "blocked"
          THEN status' = BlockedShown /\ NothingAdmitted
          ELSE /\ Len(PdfsOf(event'.fileList)) = 0 =>
                     status' = InvalidFormatShown /\ NothingAdmitted
               /\ Len(PdfsOf(event'.fileList)) \in 1..20 => AdmitsExactlyPdfs ]_vars
\* a mixed submission was admitted behind a queued file: its PDF is at the
\* tail of the queue
C10_Witness ==
    /\ IsSubmission /\ Len(event.fileList) = 2 /\ Len(PdfsOf(event.fileList)) = 1
    /\ MergedDuringDrain /\ fileQueue[Len(fileQueue)].id = admitted

\* --------------------------------------------- the contract of processFile
IsCall == event.op = "processFile"
CalledFile == event.fileList[1]
InvalidTypeShown == Shown("error", "Invalid Format")
FileTooLargeShown == Shown("error", "File Too Large")
\* a call that returns before the busy check: it has settled (or, made while
\* another call is suspended, has left that call as it was) without
\* initializing the engine, reading the file or touching the engine, and
\* the busy flag is as it was
ReturnsUntouched ==
    /\ isProcessing' = isProcessing
    /\ qpdfModule' = qpdfModule
    /\ inFlight' = inFlight
    /\ IF pc = "idle"
       THEN /\ pc' = "resume"
            /\ ~call'.initWasm /\ call'.ops = << >> /\ call'.args = << >>
            /\ ~call'.flagSet /\ call'.done
       ELSE pc' = pc /\ call' = call

\* C11: a processFile call with no file, or with a file whose declared type
\* is not application/pdf, reports 'Invalid Format' and returns without
\* initializing the engine, reading the bytes, writing to staging, calling
\* decrypt or changing the busy flag.
C11_InvalidTypeUntouched ==
    [][ (event'.op = "processFile"
         /\ (event'.fileList[1] = NoFile
             \/ event'.fileList[1].type # "application/pdf")) =>
            status' = InvalidTypeShown /\ ReturnsUntouched ]_vars
\* a text file was rejected while an earlier call was reading its file and
\* held the flag
C11_Witness ==
    /\ IsCall /\ CalledFile # NoFile /\ CalledFile.type = "text/plain"
    /\ status = InvalidTypeShown /\ pc = "read" /\ isProcessing
    /\ call.ops = <<"arrayBuffer">>

\* C12: a call with a PDF-typed file of more than 104857600 bytes reports
\* 'File Too Large' and returns without reading the bytes or touching the
\* engine; a file of exactly 104857600 bytes passes this check.
C12_TooLargeUntouched ==
    [][ (event'.op = "processFile" /\ event'.fileList[1] # NoFile
         /\ event'.fileList[1].type = "application/pdf") =>
           /\ event'.fileList[1].size > 104857600 =>
                 status' = FileTooLargeShown /\ ReturnsUntouched
           /\ (event'.fileList[1].size <= 104857600 /\ pc = "idle") =>
                 /\ call'.reported # "File Too Large"
                 /\ call'.flagSet
                 /\ hostEnv # "noModule" => pc' \in {"init", "read"} ]_vars
\* a PDF of 100 MiB + 1 byte was rejected while an earlier call held the flag
C12_Witness ==
    /\ IsCall /\ CalledFile # NoFile /\ CalledFile.type = "application/pdf"
    /\ CalledFile.size = 104857601
    /\ status = FileTooLargeShown /\ pc = "init" /\ isProcessing

\* the call has seen the bytes of its file
HasRead == \E i \in DOMAIN call.ops : call.ops[i] = "Uint8Array"
Count(op) == Cardinality({i \in DOMAIN call.ops : call.ops[i] = op})
BadSignature(b) == Len(b) < 4 \/ SubSeq(b, 1, 4) # <<37, 80, 68, 70>>
Settled == pc = "resume" /\ call.done

\* C13: a call that has read a buffer shorter than 4 bytes, or not starting
\* with 0x25 0x50 0x44 0x46, reports 'Invalid PDF' and resolves to null
\* having done nothing but read the buffer: no staging write, no decrypt.
C13_BadSignatureRejected ==
    (Settled /\ HasRead /\ BadSignature(call.bytes)) =>
        /\ call.reported = "Invalid PDF"
        /\ status = Shown("error", "Invalid PDF")
        /\ ret = "null"
        /\ call.ops = <<"arrayBuffer", "Uint8Array">> /\ call.args = << >>
\* a buffer of three bytes, the start of the signature, was rejected
C13_Witness ==
    Settled /\ call.bytes = <<37, 80, 68>> /\ call.reported = "Invalid PDF"

\* C14: a call with returnBlob = true that has read a signed buffer and whose
\* write, decrypt and read did not throw resolves to the output Blob, having
\* called decrypt exactly once, with an input name and an output name that
\* differ.
C14_BlobReturned ==
    (Settled /\ callReturnBlob /\ HasRead /\ ~BadSignature(call.bytes)
       /\ Count("throw") = 0) =>
        /\ ret = "blob"
        /\ Count("callMain") = 1
        /\ Len(call.args) = 3 /\ call.args[1] = "--decrypt"
        /\ call.args[2] # call.args[3]
        /\ Count("writeFile") = 1 /\ Count("readFile") = 1
\* both names were generated in the same millisecond
C14_Witness ==
    /\ Settled /\ callReturnBlob /\ ret = "blob"
    /\ call.args = <<"--decrypt", <<"input", 1>>, <<"output", 1>>>>

\* the operation `op` of the call threw
Threw(op) ==
    \E i \in DOMAIN call.ops :
        call.ops[i] = op /\ i < Len(call.ops) /\ call.ops[i + 1] = "throw"

\* C15: when decrypt has thrown, the call reports 'Processing Failed' and has
\* still called unlink for the input staging name and for the output staging
\* name by the time it completes.
C15_CleanupAfterDecryptThrows ==
    (Settled /\ Threw("callMain")) =>
        /\ call.reported = "Processing Failed"
        /\ call.unlinked = <<call.args[2], call.args[3]>>

\* C16: a call that set the busy flag has cleared it when it completes, on
\* every exit path; with no call pending the flag is false.
C16_FlagCleared ==
    /\ inFlight = 0 => ~isProcessing
    /\ (Settled /\ call.flagSet) => ~isProcessing
\* the flag was set and the staging write threw
C16_Witness ==
    Settled /\ call.flagSet /\ Threw("writeFile") /\ ~isProcessing

\* C17 as stated: every completed call has cleared fileInput.value.
C17_InputAlwaysCleared == Settled => call.inputCleared
\* C17 amended: a completed call has cleared fileInput.value if and only if it
\* had set the busy flag, that is on success, on an exception, on an engine
\* that fails to load and on an invalid signature, and not after an invalid
\* declared type, a file too large or a busy service.
C17_InputClearedIffFlagSet ==
    /\ Settled => (call.inputCleared <=> call.flagSet)
    /\ (Settled /\ call.reported \in {"Invalid Format", "File Too Large"}) =>
          ~call.inputCleared
    /\ (Settled /\ call.reported \in {"Invalid PDF", "Processing Failed",
                                        "Success! Downloading..."}) =>
          call.inputCleared
    /\ (Settled /\ ret = "blob") => call.inputCleared
\* the input was cleared after decrypt had thrown
C17_Witness ==
    Settled /\ call.flagSet /\ call.inputCleared /\ Threw("callMain")

\* the call tried to bring the engine up and failed
EngineFailed == call.done /\ call.initWasm /\ call.ops = << >>
\* C18: when the engine cannot be brought up for a file that passed the type
\* and size checks, the call ends, before the file is read, with an outcome
\* that differs from that of a decode exception ('Processing Failed',
\* resolving to undefined).
C18_EngineUnavailableDistinct ==
    (Settled /\ EngineFailed) =>
        /\ call.bytes = << >> /\ call.args = << >>
        /\ ~(call.reported = "Processing Failed" /\ ret = "undefined")

\* the calls of the Module factory that are loading: the one of the bootstrap
\* initWasm() and the one of the initWasm() a processFile call awaits
FactoryLoads ==
    (IF bootPc = "pending" THEN 1 ELSE 0) + (IF pc = "init" THEN 1 ELSE 0)
\* C19: engine initialization is single-flight: the Module factory is never
\* called while an earlier call of it is still loading.
C19_SingleFlightInit == FactoryLoads <= 1

\* C20: while WebAssembly is blocked it stays blocked, every submission is
\* rejected as a whole with 'Browser Restricted' (nothing is enqueued, the
\* queue is unchanged, no drain starts, processFile is not called), and the
\* display never becomes the default display.
C20_BlockedRejectsAll ==
    [][ wasmSupportStatus = "blocked" =>
          /\ wasmSupportStatus' = "blocked"
          /\ status' # DefaultStatus
          /\ event'.op = "queueFiles" =>
                /\ status' = BlockedShown
                /\ NothingAdmitted
                /\ call' = call /\ isProcessing' = isProcessing
                /\ resetPending' = resetPending ]_vars
\* two PDFs were rejected while blocked, with a deferred reset armed before
\* the block was known and 'Browser Restricted' on display
C20_Witness ==
    /\ wasmSupportStatus = "blocked" /\ IsSubmission
    /\ Len(PdfsOf(event.fileList)) = 2
    /\ status = BlockedShown /\ fileQueue = << >> /\ ~isQueueRunning
    /\ resetPending

\* position of the first occurrence of `op` among the call's operations, 0 if
\* the call has not made it
FirstAt(op) ==
    IF Count(op) = 0 THEN 0
    ELSE CHOOSE i \in DOMAIN call.ops :
             call.ops[i] = op /\ \A j \in 1..(i - 1) : call.ops[j] # op
AllZero(b) == \A i \in DOMAIN b : b[i] = 0

\* C22: a call that has invoked decrypt overwrote its source buffer with zeros
\* right after the staging write and right before the decrypt call: the bytes
\* staged are the bytes read, and the buffer is all-zero when the call has
\* settled, whether decrypt succeeded or threw.
C22_BufferZeroedBeforeDecrypt ==
    (Settled /\ Count("callMain") = 1) =>
        /\ call.written = call.bytes
        /\ Len(call.buffer) = Len(call.bytes)
        /\ AllZero(call.buffer)
        /\ Count("fill") = 1
        /\ FirstAt("fill") = FirstAt("writeFile") + 1
        /\ FirstAt("callMain") = FirstAt("fill") + 1
\* decrypt threw after a five-byte document was staged
C22_Witness ==
    /\ Settled /\ Threw("callMain")
    /\ call.written = <<37, 80, 68, 70, 0>>
    /\ call.buffer = <<0, 0, 0, 0, 0>>

\* the texts of the one result reported for a caught exception
ProcessingFailedSub == "The document appears to be corrupted or too heavily encrypted."

\* C23: a call that caught an exception (from engine initialization, the
\* read, the staging write, decrypt or the read of the output) delivered the
\* one triple ('error', 'Processing Failed', fixed sub text) to onStatus,
\* whatever the content of the exception.
C23_NoErrorDetailReported ==
    (Settled /\ (Count("throw") > 0 \/ EngineFailed)) =>
        /\ status.state = "error"
        /\ call.reported = "Processing Failed"
        /\ call.sub = ProcessingFailedSub
        /\ call.sub \notin ErrorDetails
\* decrypt threw
C23_Witness ==
    /\ Settled /\ Threw("callMain")
    /\ status = Shown("error", "Processing Failed")
    /\ call.sub = ProcessingFailedSub

\* C26: processFile resolves to null for every outcome that is not a success,
\* and to a Blob exactly on success with returnBlob = true.
C26_NullUnlessBlob ==
    Settled =>
        /\ ret \in {"null", "blob"}
        /\ ret = "blob" <=>
              (callReturnBlob /\ HasRead /\ ~BadSignature(call.bytes)
                 /\ Count("throw") = 0)

\* C30: when an unlink has thrown, both staging names have still been passed
\* to unlink, the throw is only logged, and the call resolves as it does when
\* cleanup succeeds, with no error status.
C30_CleanupIndependent ==
    (Settled /\ Count("warn") > 0) =>
        /\ Count("unlink") = 2
        /\ call.unlinked = <<call.args[2], call.args[3]>>
        /\ Count("throw") = 0
        /\ ret = IF callReturnBlob THEN "blob" ELSE "null"
        /\ call.reported = IF callReturnBlob THEN "none" ELSE "Success! Downloading..."
        /\ ~callReturnBlob => status.state = "success"
\* removing the input staging entry threw and the output entry was removed
C30_Witness ==
    /\ Settled /\ Count("warn") = 1 /\ Count("unlink") = 2
    /\ call.left = <<call.args[2]>>
    /\ FirstAt("warn") < Len(call.ops)


\* C21: when a drain has ended, every object URL created in it has been
\* revoked, and a call that has settled has left no staging entry in the
\* engine's filesystem (only the call itself unlinks its staging entries).
C21_ArtifactsReleased ==
    /\ DrainEnded => objectUrls = 0
    /\ Settled => call.left = << >>

\* the statuses reported for one file
PerFileFailures ==
    {"Invalid Format", "File Too Large", "Invalid PDF", "Processing Failed"}

\* C24: when archive construction fails the display shows the error 'ZIP
\* Failed', which is no per-file failure status, no archive download is
\* emitted, the drain is over with the running flag cleared, and no success
\* status follows for that drain.
C24_ZipFailedDistinct ==
    /\ [](archiveResult = "failed" =>
            archivesEmitted = 0 /\ ~isQueueRunning /\ pc = "idle")
    /\ [][ (archiveResult' = "failed" /\ archiveResult # "failed") =>
             /\ status' = Shown("error", "ZIP Failed")
             /\ status'.main \notin PerFileFailures
             /\ pc = "zip" /\ pc' = "idle" /\ ~isQueueRunning' ]_vars
    /\ [][ (archiveResult = "failed" /\ archiveResult' = "failed") =>
             status'.state # "success" ]_vars
\* the archive of two decoded files could not be built
C24_Witness ==
    /\ archiveResult = "failed" /\ status = Shown("error", "ZIP Failed")
    /\ drainSuccesses = 2 /\ archivesEmitted = 0 /\ ~isQueueRunning

\* C25: the display is never 'default' while a drain is running or a decode
\* is in flight: a reset timer that fires then leaves the display as it is.
C25_ResetOnlyWhenQuiet ==
    status.state = "default" => ~isQueueRunning /\ ~isProcessing
\* the reset timer fired during a drain and left the display as it was
C25_Witness ==
    /\ event.op = "resetState" /\ isQueueRunning /\ isProcessing
    /\ status.state = "processing" /\ ~resetPending

\* C27: the progress on display, 'Unlocking (i/n)', has 1 <= i <= n, with n
\* the number of files the drain counted at its entry.
C27_ProgressWithinCount ==
    status.main = "Unlocking" =>
        /\ status.n = totalFilesThisBatch
        /\ status.i = currentProcessed
        /\ 1 <= status.i /\ status.i <= status.n


\* C28: in archive mode, when every file the drain has dispatched was added
\* to the archive, the declared sizes of those files sum to less than the
\* archive memory limit.
C28_ArchiveWithinLimit ==
    (useZip /\ pc \in {"zip", "idle"} /\ successfulBlobs = currentProcessed) =>
        archiveBytes < ZIP_MEMORY_LIMIT_BYTES

\* C29: a call that generated staging names did not generate the input name
\* or the output name of the call before it.
C29_StagingNamesUnique ==
    (Settled /\ call.args # << >> /\ call.prev # << >>) =>
        /\ call.args[2] # call.prev[1]
        /\ call.args[3] # call.prev[2]


\* C31: a processFile call with a PDF-typed file within the size limit, made
\* while the busy flag is set, resolves to null and changes nothing: the
\* display, the engine, the flag and the call in flight are as they were.
\* The flag is cleared only by a step in which the call that set it settles.
C31_BusyCallLeavesFlag ==
    /\ [][ (event'.op = "processFile" /\ event'.fileList[1] # NoFile
            /\ event'.fileList[1].type = "application/pdf"
            /\ event'.fileList[1].size <= MAX_FILE_SIZE_BYTES
            /\ isProcessing) =>
              /\ event'.ret = "null"
              /\ status' = status
              /\ isProcessing' /\ inFlight' = inFlight
              /\ qpdfModule' = qpdfModule
              /\ pc' = pc /\ call' = call /\ ret' = ret
              /\ objectUrls' = objectUrls ]_vars
    /\ [][ (isProcessing /\ ~isProcessing') =>
              /\ pc \in {"init", "read"} /\ pc' = "resume"
              /\ call.flagSet /\ ~call.done /\ call'.done ]_vars
\* a second call with a 1 MiB PDF was made while the first was reading
C31_Witness ==
    /\ IsCall /\ CalledFile # NoFile /\ CalledFile.type = "application/pdf"
    /\ CalledFile.size = MiB /\ event.ret = "null"
    /\ pc = "read" /\ isProcessing /\ call.ops = <<"arrayBuffer">> /\ ~call.done
    /\ status.state = "processing"


\* C32: an archive that was emitted holds one entry for each file of the
\* drain that was decoded successfully.
C32_OneEntryPerSuccess ==
    archiveResult = "ok" =>
        /\ Cardinality(ArchiveOf(zipEntries)) = successfulBlobs
        /\ \A k \in DOMAIN zipEntries :
              \E e \in ArchiveOf(zipEntries) : e[2] = zipEntries[k]


\* C33: while a decode is in flight during a drain, the display is in the
\* 'processing' state and shows the queue manager's progress for that file.
C33_ProgressShownWhileDecoding ==
    (isQueueRunning /\ isProcessing /\ pc \in {"init", "read"}) =>
        status = Progress(currentProcessed, totalFilesThisBatch)


====
